---- MODULE Spec2Model ----
(***************************************************************************)
(* A model of iyes_scene_tools (src/src/lib.rs): the two standalone        *)
(* functions scene_from_query_components and scene_from_query_filter, and  *)
(* SceneBuilder with its add_* methods and build_scene, over a Bevy World. *)
(*                                                                         *)
(* The World is the host's: what the library reads of it is modelled as    *)
(* three variables (the entities with their archetypes, the registered     *)
(* component ids, the TypeRegistry resource).  No action of the library    *)
(* writes anything of it but the component registrations a query makes.    *)
(***************************************************************************)
EXTENDS Integers, Sequences, FiniteSets, TLC

(***************************************************************************)
(* Bounds of the model.                                                    *)
(***************************************************************************)
\* The longest declared component list Q (a tuple of &T), lib.rs:342-354.
MaxQ == 2
\* The longest entity list handed to add_entities / add_components_to_entities.
MaxEnts == 2
\* The most With<T> / Without<T> terms of a query filter F.
MaxFilter == 1

(***************************************************************************)
(* The universe: component kinds (Rust types that are Component + Reflect) *)
(* and Entity values <<id, generation>>.  <<1, 0>> and <<1, 1>> share an   *)
(* id: at most one generation of an id is alive in a World.                *)
(***************************************************************************)
Kinds == {"Position", "Velocity"}
Entities == {<<0, 0>>, <<1, 0>>, <<1, 1>>}

VARIABLES
    location,       \* world.entities() and world.archetypes(): per Entity,
                    \* whether it is alive and the kinds attached to it
    components,     \* world.components(): the kinds that have a ComponentId
    type_registry,  \* the TypeRegistry resource, or NoResource
    builder,        \* TRUE while a SceneBuilder borrows the world
    ec,             \* SceneBuilder.ec: Entity -> ComponentSelection
    call,           \* the call that has just returned (or panicked) and its
                    \* arguments; NoCall between two statements of the caller
    scene,          \* the DynamicScene that call returned
    status          \* "running", or "panicked" once a call has panicked

vars == <<location, components, type_registry, builder, ec, call, scene, status>>
world == <<location, components, type_registry>>

(***************************************************************************)
(* Values.                                                                 *)
(***************************************************************************)
\* Entity::id(): the index half of an Entity (lib.rs:52, 102, 318).
id(entity) == entity[1]

\* enum ComponentSelection, and the absence of a key in the HashMap ec.
All == [tag |-> "All", ids |-> {}]
ByIds(c) == [tag |-> "ByIds", ids |-> c]
NotSelected == [tag |-> "None", ids |-> {}]

NoLocation == [alive |-> FALSE, archetype |-> {}]
Located(a) == [alive |-> TRUE, archetype |-> a]

NoResource == [present |-> FALSE, data |-> [k \in Kinds |-> "Absent"]]
Registry(d) == [present |-> TRUE, data |-> d]

\* A query filter F: a conjunction of With<T> and Without<T> terms.
Filters ==
    {[with |-> w, without |-> wo] : w \in SUBSET Kinds, wo \in SUBSET Kinds}
NoFilter == [with |-> {}, without |-> {}]

Range(s) == {s[i] : i \in DOMAIN s}
SeqsUpTo(S, n) == UNION {[1..m -> S] : m \in 0..n}
\* Every order in which an unordered collection may be iterated.
Perms(S) ==
    {p \in [1..Cardinality(S) -> S] : \A i, j \in DOMAIN p : p[i] = p[j] => i = j}

\* The inputs the actions draw from.
QLists == SeqsUpTo(Kinds, MaxQ)
EntityLists == SeqsUpTo(Entities, MaxEnts)
FilterArgs ==
    {f \in Filters : Cardinality(f.with) + Cardinality(f.without) <= MaxFilter}

\* A call record: the method, its entity list, its Q, its F, and (prev) the
\* call whose result the caller still held when it made this one.
NoCall ==
    [name |-> "none", ents |-> <<>>, q |-> <<>>, f |-> NoFilter, prev |-> "none"]
Call(n, es, q, f) ==
    [name |-> n, ents |-> es, q |-> q, f |-> f, prev |-> call.name]

(***************************************************************************)
(* The host's operations the library calls.                                *)
(***************************************************************************)
\* SystemState::<Query<Entity, (Q::QueryFilter, F)>>::new(world): building the
\* query state gives every kind named by a With / Without term a ComponentId.
SystemState_new(q, f) == components \cup Range(q) \cup f.with \cup f.without

\* Variant: the query forgets Q::QueryFilter and filters on F alone.
QueryMatches_filter_only(q, f) ==
    {e \in Entities :
        /\ location[e].alive
        /\ f.with \subseteq location[e].archetype
        /\ f.without \cap location[e].archetype = {}}

\* Variant: Without<T> terms of F are not applied.
QueryMatches_no_without(q, f) ==
    {e \in Entities :
        /\ location[e].alive
        /\ Range(q) \subseteq location[e].archetype
        /\ f.with \subseteq location[e].archetype}

\* q.iter(): the live entities that have every kind of Q (Q::QueryFilter is
\* With<T> for each &T of Q) and that match F.
QueryMatches(q, f) ==
    {e \in Entities :
        /\ location[e].alive
        /\ Range(q) \subseteq location[e].archetype
        /\ f.with \subseteq location[e].archetype
        /\ f.without \cap location[e].archetype = {}}

\* Variant: a kind without a ComponentId is skipped instead of panicking
\* (if let Some(id) = world.component_id::<T>()).
RECURSIVE do_component_ids_skip(_, _)
do_component_ids_skip(comps, q) ==
    IF q = <<>> THEN [ids |-> <<>>, ok |-> TRUE]
    ELSE LET rest == do_component_ids_skip(comps, Tail(q))
         IN  IF Head(q) \in comps
             THEN [ids |-> <<Head(q)>> \o rest.ids, ok |-> rest.ok]
             ELSE rest

\* ComponentList::do_component_ids against the registered ids `comps`: the ids
\* handed to the callback, in Q's order, up to the first kind that has no
\* ComponentId, where expect("Component not in World") panics.
RECURSIVE do_component_ids(_, _)
do_component_ids(comps, q) ==
    IF q = <<>> THEN [ids |-> <<>>, ok |-> TRUE]
    ELSE IF Head(q) \notin comps THEN [ids |-> <<>>, ok |-> FALSE]
    ELSE LET rest == do_component_ids(comps, Tail(q))
         IN  [ids |-> <<Head(q)>> \o rest.ids, ok |-> rest.ok]

\* Variant: the chain stops at the type registration and does not ask for its
\* ReflectComponent data.
get_reflect_by_id_no_data(entity, cid) ==
    /\ cid \in components
    /\ type_registry.data[cid] # "Absent"
    /\ location[entity].alive
    /\ cid \in location[entity].archetype

\* The closure get_reflect_by_id, as "is Some": the id has a ComponentInfo, its
\* type has a registration, the registration has ReflectComponent data, and the
\* entity is alive and has the component.  The value cloned is the kind's.
\* (info.type_id().unwrap() cannot fail: every id here is that of a Rust type,
\* taken from an archetype or from world.component_id::<T>().)
get_reflect_by_id(entity, cid) ==
    /\ cid \in components
    /\ type_registry.data[cid] # "Absent"
    /\ type_registry.data[cid] = "ReflectComponent"
    /\ location[entity].alive
    /\ cid \in location[entity].archetype

\* ids.filter_map(get_reflect_by_id).collect()
filter_map(entity, ids) == SelectSeq(ids, LAMBDA cid : get_reflect_by_id(entity, cid))

\* world.entities().get(entity).and_then(archetypes.get).flat_map(components):
\* the attached kinds in the archetype's order, nothing for a dead entity.
archetype_components(entity) ==
    IF location[entity].alive THEN Perms(location[entity].archetype) ELSE {<<>>}

DynamicEntity(entity, comps) == [entity |-> id(entity), components |-> comps]

(***************************************************************************)
(* The initial states: a World before any call of the library.             *)
(***************************************************************************)
\* Position is registered for reflection with #[reflect(Component)]; Velocity
\* is so too, or registered without ReflectComponent data, or not registered.
Registries ==
    {Registry([k \in Kinds |->
                  IF k = "Velocity" THEN v ELSE "ReflectComponent"]) :
        v \in {"ReflectComponent", "NoData", "Absent"}}

\* Entity <<0, 0>> is alive with any kinds, <<1, 1>> is alive with Position,
\* and <<1, 0>> is the despawned entity whose id <<1, 1>> reuses.  A kind has
\* a ComponentId once it has been attached.  Without the TypeRegistry
\* resource every scene call panics whatever the archetypes: one such World.
Init ==
    /\ \E a \in SUBSET Kinds :
          location = [e \in Entities |->
                        IF e = <<0, 0>> THEN Located(a)
                        ELSE IF e = <<1, 1>> THEN Located({"Position"})
                        ELSE NoLocation]
    /\ components = UNION {location[e].archetype : e \in Entities}
    /\ \/ type_registry \in Registries
       \/ type_registry = NoResource /\ location[<<0, 0>>].archetype = Kinds
    /\ builder = FALSE
    /\ ec = [e \in Entities |-> NotSelected]
    /\ call = NoCall
    /\ scene = <<>>
    /\ status = "running"

\* A call can be made: nothing has panicked, and the caller holds no result.
Callable == status = "running" /\ call = NoCall

\* The caller ends the statement: the &mut Self or the DynamicScene the call
\* returned goes out of scope.
drop_result ==
    /\ status = "running" /\ call # NoCall
    /\ call' = NoCall
    /\ scene' = <<>>
    /\ UNCHANGED <<location, components, type_registry, builder, ec, status>>

(***************************************************************************)
(* The standalone functions.                                               *)
(***************************************************************************)
\* Variant: an entity with no reflected component gets no record.
Scenes_skip_empty(ents, lists) ==
    {SelectSeq([i \in DOMAIN order |-> DynamicEntity(order[i], c[order[i]])],
               LAMBDA r : r.components # <<>>) :
        order \in Perms(ents),
        c \in {c \in [ents -> UNION {lists[e] : e \in ents}] :
                  \A e \in ents : c[e] \in lists[e]}}

\* The scenes a call may return: one record per entity of `ents`, in any
\* iteration order, entity e carrying one of the lists lists[e].
Scenes(ents, lists) ==
    {[i \in DOMAIN order |-> DynamicEntity(order[i], c[order[i]])] :
        order \in Perms(ents),
        c \in {c \in [ents -> UNION {lists[e] : e \in ents}] :
                  \A e \in ents : c[e] \in lists[e]}}

Panic(c) ==
    /\ status' = "panicked"
    /\ call' = c
    /\ scene' = <<>>

scene_from_query_components(q, f) ==
    /\ Callable /\ ~builder
    /\ components' = SystemState_new(q, f)
    /\ UNCHANGED <<location, type_registry, builder, ec>>
    /\ LET c == Call("scene_from_query_components", <<>>, q, f)
           r == do_component_ids(components', q)
           matches == QueryMatches(q, f)
       IN  IF ~type_registry.present \/ (matches # {} /\ ~r.ok)
           THEN Panic(c)
           ELSE /\ status' = status
                /\ call' = c
                /\ scene' \in Scenes(matches,
                                     [e \in matches |-> {filter_map(e, r.ids)}])

scene_from_query_filter(f) ==
    /\ Callable /\ ~builder
    /\ components' = SystemState_new(<<>>, f)
    /\ UNCHANGED <<location, type_registry, builder, ec>>
    /\ LET c == Call("scene_from_query_filter", <<>>, <<>>, f)
           matches == QueryMatches(<<>>, f)
       IN  IF ~type_registry.present
           THEN Panic(c)
           ELSE /\ status' = status
                /\ call' = c
                /\ scene' \in Scenes(matches,
                        [e \in matches |->
                            {filter_map(e, p) : p \in archetype_components(e)}])

(***************************************************************************)
(* SceneBuilder.                                                           *)
(***************************************************************************)
new ==
    /\ Callable /\ ~builder
    /\ builder' = TRUE
    /\ ec' = [e \in Entities |-> NotSelected]
    /\ UNCHANGED <<call, scene>>
    /\ UNCHANGED <<location, components, type_registry, status>>

\* SceneBuilder's borrow of the world ends (struct SceneBuilder<'w>).
drop_builder ==
    /\ Callable /\ builder
    /\ builder' = FALSE
    /\ ec' = [e \in Entities |-> NotSelected]
    /\ UNCHANGED <<call, scene>>
    /\ UNCHANGED <<location, components, type_registry, status>>

\* Variant: entry(e).or_insert(All), which keeps an existing selection.
insert_all_if_absent(m, ents) ==
    [e \in Entities |-> IF e \in ents /\ m[e].tag = "None" THEN All ELSE m[e]]

\* Variant: an entry that is already there is removed instead of overwritten.
insert_all_toggle(m, ents) ==
    [e \in Entities |->
        IF e \in ents
        THEN (IF m[e].tag = "None" THEN All ELSE NotSelected)
        ELSE m[e]]

\* self.ec.insert(e, ComponentSelection::All) for every e of `ents`.
insert_all(m, ents) == [e \in Entities |-> IF e \in ents THEN All ELSE m[e]]

add_from_query_filter(f) ==
    /\ Callable /\ builder
    /\ components' = SystemState_new(<<>>, f)
    /\ ec' = insert_all(ec, QueryMatches(<<>>, f))
    /\ call' = Call("add_from_query_filter", <<>>, <<>>, f)
    /\ scene' = <<>>
    /\ UNCHANGED <<location, type_registry, builder, status>>

\* add_entity returns &mut Self: the next add_entity can be chained onto it
\* (builder.add_entity(a).add_entity(b)), which is a call made while the
\* result of the one before is held.
add_entity(e) ==
    /\ status = "running" /\ call.name \in {"none", "add_entity"} /\ builder
    /\ ec' = insert_all(ec, {e})
    /\ call' = Call("add_entity", <<e>>, <<>>, NoFilter)
    /\ scene' = <<>>
    /\ UNCHANGED <<location, components, type_registry, builder, status>>

add_entities(entities) ==
    /\ Callable /\ builder
    /\ ec' = insert_all(ec, Range(entities))
    /\ call' = Call("add_entities", entities, <<>>, NoFilter)
    /\ scene' = <<>>
    /\ UNCHANGED <<location, components, type_registry, builder, status>>

\* Variant: a ByIds entry is replaced by the new ids instead of extended.
add_components_replace(sel, comps, q) ==
    LET r == do_component_ids(comps, q)
    IN  CASE sel.tag = "All" -> [sel |-> sel, ok |-> TRUE]
          [] sel.tag = "ByIds" -> [sel |-> ByIds(Range(r.ids)), ok |-> r.ok]
          [] OTHER ->
                [sel |-> IF r.ok THEN ByIds(Range(r.ids)) ELSE sel, ok |-> r.ok]

\* Variant: an "All" entry is treated like a missing one and overwritten.
add_components_narrow(sel, comps, q) ==
    LET r == do_component_ids(comps, q)
    IN  CASE sel.tag = "ByIds" ->
                [sel |-> ByIds(sel.ids \cup Range(r.ids)), ok |-> r.ok]
          [] OTHER ->
                [sel |-> IF r.ok THEN ByIds(Range(r.ids)) ELSE sel, ok |-> r.ok]

\* Variant: a ByIds entry keeps only the ids that are also new (retain instead
\* of insert).
add_components_intersect(sel, comps, q) ==
    LET r == do_component_ids(comps, q)
    IN  CASE sel.tag = "All" -> [sel |-> sel, ok |-> TRUE]
          [] sel.tag = "ByIds" ->
                [sel |-> ByIds(sel.ids \cap Range(r.ids)), ok |-> r.ok]
          [] OTHER ->
                [sel |-> IF r.ok THEN ByIds(Range(r.ids)) ELSE sel, ok |-> r.ok]

\* Variant: an entry that is already there is kept as it is, ByIds or "All"
\* (entry(e).or_insert_with(..)): the first explicit add wins.
add_components_first_wins(sel, comps, q) ==
    LET r == do_component_ids(comps, q)
    IN  CASE sel.tag = "All" -> [sel |-> sel, ok |-> TRUE]
          [] sel.tag = "ByIds" -> [sel |-> sel, ok |-> r.ok]
          [] OTHER ->
                [sel |-> IF r.ok THEN ByIds(Range(r.ids)) ELSE sel, ok |-> r.ok]

\* The body shared by add_components_to_entity, add_components_to_entities and
\* add_with_components for one entity: the selection it leaves, and whether
\* do_component_ids returned.  An "All" entry is not touched (and Q is not
\* resolved); a ByIds entry gets the ids inserted before a panic; a new entry
\* is inserted only once every id is resolved.
add_components(sel, comps, q) ==
    LET r == do_component_ids(comps, q)
    IN  CASE sel.tag = "All" -> [sel |-> sel, ok |-> TRUE]
          [] sel.tag = "ByIds" ->
                [sel |-> ByIds(sel.ids \cup Range(r.ids)), ok |-> r.ok]
          [] OTHER ->
                [sel |-> IF r.ok THEN ByIds(Range(r.ids)) ELSE sel, ok |-> r.ok]

\* for e in entities { ... }: the map and whether the loop ran to its end.
RECURSIVE for_each_add_components(_, _, _, _)
for_each_add_components(m, entities, comps, q) ==
    IF entities = <<>> THEN [ec |-> m, ok |-> TRUE]
    ELSE LET e == Head(entities)
             r == add_components(m[e], comps, q)
             m1 == [m EXCEPT ![e] = r.sel]
         IN  IF r.ok THEN for_each_add_components(m1, Tail(entities), comps, q)
             ELSE [ec |-> m1, ok |-> FALSE]

add_components_to_entity(e, q) ==
    /\ Callable /\ builder
    /\ LET r == for_each_add_components(ec, <<e>>, components, q)
       IN  /\ ec' = r.ec
           /\ status' = IF r.ok THEN status ELSE "panicked"
    /\ call' = Call("add_components_to_entity", <<e>>, q, NoFilter)
    /\ scene' = <<>>
    /\ UNCHANGED <<location, components, type_registry, builder>>

add_components_to_entities(entities, q) ==
    /\ Callable /\ builder
    /\ LET r == for_each_add_components(ec, entities, components, q)
       IN  /\ ec' = r.ec
           /\ status' = IF r.ok THEN status ELSE "panicked"
    /\ call' = Call("add_components_to_entities", entities, q, NoFilter)
    /\ scene' = <<>>
    /\ UNCHANGED <<location, components, type_registry, builder>>

\* Variant: the matched entities are inserted as "All", as add_from_query_filter
\* does.
add_with_components_all(q, f) ==
    /\ Callable /\ builder
    /\ components' = SystemState_new(q, f)
    /\ ec' = insert_all(ec, QueryMatches(q, f))
    /\ status' = status
    /\ call' = Call("add_with_components", <<>>, q, f)
    /\ scene' = <<>>
    /\ UNCHANGED <<location, type_registry, builder>>

add_with_components(q, f) ==
    /\ Callable /\ builder
    /\ components' = SystemState_new(q, f)
    /\ \E order \in Perms(QueryMatches(q, f)) :
          LET r == for_each_add_components(ec, order, components', q)
          IN  /\ ec' = r.ec
              /\ status' = IF r.ok THEN status ELSE "panicked"
    /\ call' = Call("add_with_components", <<>>, q, f)
    /\ scene' = <<>>
    /\ UNCHANGED <<location, type_registry, builder>>

\* The entities that are keys of ec.
Selected(m) == {e \in Entities : m[e].tag # "None"}

\* Variant: the selection is ignored and every attached kind is reflected.
selection_components_all(e, sel) ==
    {filter_map(e, p) : p \in archetype_components(e)}

\* Variant: the ids of an explicit selection are emitted as they are, without
\* asking whether the entity has the component and the kind reflects.
selection_components_unfiltered(e, sel) ==
    IF sel.tag = "All"
    THEN {filter_map(e, p) : p \in archetype_components(e)}
    ELSE Perms(sel.ids)

\* The component lists build_scene may give entity e under selection sel.
selection_components(e, sel) ==
    IF sel.tag = "All"
    THEN {filter_map(e, p) : p \in archetype_components(e)}
    ELSE {filter_map(e, p) : p \in Perms(sel.ids)}

\* Variant: build_scene drains the map (self.ec.drain()) as it builds.
build_scene_drain ==
    /\ status = "running" /\ call.name \in {"none", "build_scene"} /\ builder
    /\ LET c == Call("build_scene", <<>>, <<>>, NoFilter)
       IN  IF ~type_registry.present
           THEN Panic(c) /\ ec' = ec
           ELSE /\ status' = status
                /\ call' = c
                /\ scene' \in Scenes(Selected(ec),
                        [e \in Selected(ec) |-> selection_components(e, ec[e])])
                /\ ec' = [e \in Entities |-> NotSelected]
    /\ UNCHANGED <<location, components, type_registry, builder>>

\* Variant: the entities are taken out of the world as they are captured
\* (despawned once reflected).
build_scene_take ==
    /\ status = "running" /\ call.name \in {"none", "build_scene"} /\ builder
    /\ LET c == Call("build_scene", <<>>, <<>>, NoFilter)
       IN  IF ~type_registry.present
           THEN Panic(c) /\ location' = location
           ELSE /\ status' = status
                /\ call' = c
                /\ scene' \in Scenes(Selected(ec),
                        [e \in Selected(ec) |-> selection_components(e, ec[e])])
                /\ location' = [e \in Entities |->
                        IF e \in Selected(ec) THEN NoLocation ELSE location[e]]
    /\ UNCHANGED <<components, type_registry, builder, ec>>

\* build_scene takes &self: it can be called again while the scene of the
\* call before it is still held.
build_scene ==
    /\ status = "running" /\ call.name \in {"none", "build_scene"} /\ builder
    /\ LET c == Call("build_scene", <<>>, <<>>, NoFilter)
       IN  IF ~type_registry.present
           THEN Panic(c)
           ELSE /\ status' = status
                /\ call' = c
                /\ scene' \in Scenes(Selected(ec),
                        [e \in Selected(ec) |-> selection_components(e, ec[e])])
    /\ UNCHANGED <<location, components, type_registry, builder, ec>>

\* Each method is called with any arguments; the guards that do not depend on
\* the arguments are repeated before the arguments are drawn.
Next ==
    \/ Callable /\ ~builder /\
          \E q \in QLists, f \in FilterArgs : scene_from_query_components(q, f)
    \/ Callable /\ ~builder /\
          \E f \in FilterArgs : scene_from_query_filter(f)
    \/ new
    \/ Callable /\ builder /\
          \E f \in FilterArgs : add_from_query_filter(f)
    \/ status = "running" /\ call.name \in {"none", "add_entity"} /\ builder /\
          \E e \in Entities : add_entity(e)
    \/ Callable /\ builder /\
          \E es \in EntityLists : add_entities(es)
    \/ Callable /\ builder /\
          \E e \in Entities, q \in QLists : add_components_to_entity(e, q)
    \/ Callable /\ builder /\
          \E es \in EntityLists, q \in QLists : add_components_to_entities(es, q)
    \/ Callable /\ builder /\
          \E q \in QLists, f \in FilterArgs : add_with_components(q, f)
    \/ build_scene
    \/ drop_builder
    \/ drop_result

Spec == Init /\ [][Next]_vars

(***************************************************************************)
(* What the properties speak of, stated from the World alone.              *)
(***************************************************************************)
ExplicitOps ==
    {"add_components_to_entity", "add_components_to_entities",
     "add_with_components"}

\* The kinds attached to an entity: none for an id that is not alive.
Attached(e) == IF location[e].alive THEN location[e].archetype ELSE {}

\* The kinds that reflect as components.
Reflectable ==
    {k \in Kinds :
        type_registry.present /\ type_registry.data[k] = "ReflectComponent"}

\* Entity e passes F.
FilterHolds(f, e) ==
    /\ location[e].alive
    /\ \A k \in f.with : k \in Attached(e)
    /\ \A k \in f.without : k \notin Attached(e)

\* Entity e has every kind Q declares.
HasDeclared(q, e) == \A i \in DOMAIN q : q[i] \in Attached(e)

\* The entities an explicit add of call c applies its rule to.
Targets(c) ==
    IF c.name = "add_with_components"
    THEN {e \in Entities : HasDeclared(c.q, e) /\ FilterHolds(c.f, e)}
    ELSE Range(c.ents)

\* The call c has returned normally.
Returned(n) == call.name = n /\ status = "running"

\* The scene holds one record per entity of ents, entity e's record carrying
\* exactly the kinds want(e).
SceneIs(ents, want(_)) ==
    \E order \in Perms(ents) :
        /\ Len(scene) = Cardinality(ents)
        /\ \A i \in DOMAIN scene :
              /\ scene[i].entity = id(order[i])
              /\ Range(scene[i].components) = want(order[i])

\* How many records of the scene s carry the entity id n.
Records(s, n) == Cardinality({i \in DOMAIN s : s[i].entity = n})
Ids == {id(e) : e \in Entities}

\* A scene's content, whatever the order of its records and of their
\* components: how often each (entity id, kinds with multiplicity) occurs.
KindCount(cs) == [k \in Kinds |-> Cardinality({i \in DOMAIN cs : cs[i] = k})]
Content(s) ==
    LET rec(i) == [entity |-> s[i].entity, kinds |-> KindCount(s[i].components)]
    IN  [r \in {rec(i) : i \in DOMAIN s} |->
            Cardinality({i \in DOMAIN s : rec(i) = r})]

(***************************************************************************)
(* C1.  Builder merge law.  An explicit add (add_components_to_entity,     *)
(* add_components_to_entities, add_with_components) of the kinds K that    *)
(* returns leaves an entity it applies to that was not selected with the   *)
(* explicit selection exactly K, and one that had the explicit selection   *)
(* K1 with exactly K1 \cup K: so K1 added to an unselected entity, then K2, *)
(* leaves K1 \cup K2, a kind named twice counting once.                    *)
(***************************************************************************)
C1_MergeLaw ==
    [][(call'.name \in ExplicitOps /\ status' = "running") =>
          \A e \in Targets(call') :
              /\ ec[e].tag = "None" => ec'[e] = ByIds(Range(call'.q))
              /\ ec[e].tag = "ByIds" =>
                    ec'[e] = ByIds(ec[e].ids \cup Range(call'.q))]_vars

\* An explicit add of <<k, k>> has returned on an entity that now holds k and
\* a kind added before it.
C1_Witness ==
    /\ call.name \in ExplicitOps /\ status = "running"
    /\ Len(call.q) = 2 /\ call.q[1] = call.q[2]
    /\ \E e \in Targets(call) :
          /\ ec[e].tag = "ByIds"
          /\ call.q[1] \in ec[e].ids
          /\ ec[e].ids \ Range(call.q) # {}

(***************************************************************************)
(* C2.  An entity selected as "All" stays "All" through every explicit add *)
(* that applies to it, whatever kinds the add declares and whether or not  *)
(* the call returns.                                                       *)
(***************************************************************************)
C2_AllStaysAll ==
    [][call'.name \in ExplicitOps =>
          \A e \in Targets(call') : ec[e] = All => ec'[e] = All]_vars

\* add_components_to_entity::<Q>(e) with a non-empty Q has returned and e is
\* selected as "All" (no explicit add makes an entity "All": it was before).
C2_Witness ==
    /\ Returned("add_components_to_entity")
    /\ call.q # <<>>
    /\ ec[call.ents[1]] = All

(***************************************************************************)
(* C3.  add_from_query_filter::<F> leaves every entity matching F selected *)
(* as "All", whatever its selection was, and every other entity with the   *)
(* selection it had.                                                       *)
(***************************************************************************)
C3_FilterSelectsAll ==
    [][call'.name = "add_from_query_filter" =>
          \A e \in Entities :
              IF FilterHolds(call'.f, e) THEN ec'[e] = All
              ELSE ec'[e] = ec[e]]_vars

\* add_from_query_filter has returned; an entity matching F is "All" and one
\* not matching F still has its explicit selection.
C3_Witness ==
    /\ Returned("add_from_query_filter")
    /\ \E e \in Entities : FilterHolds(call.f, e) /\ ec[e] = All
    /\ \E e \in Entities : ~FilterHolds(call.f, e) /\ ec[e].tag = "ByIds"

(***************************************************************************)
(* C4.  build_scene changes neither the builder's map nor the World, and a *)
(* build_scene made right after another returns a scene of the same        *)
(* content.                                                                *)
(***************************************************************************)
C4_BuildIsPure ==
    [][call'.name = "build_scene" =>
          /\ ec' = ec
          /\ world' = world
          /\ builder' = builder
          /\ (call.name = "build_scene" /\ status' = "running") =>
                Content(scene') = Content(scene)]_vars

\* A second build_scene in a row has returned a scene of two records, one of
\* them with a component.
C4_Witness ==
    /\ Returned("build_scene")
    /\ call.prev = "build_scene"
    /\ Len(scene) >= 2
    /\ \E i \in DOMAIN scene : scene[i].components # <<>>

(***************************************************************************)
(* C5.  The scene build_scene returns holds, for each selected entity, the *)
(* attached reflectable kinds when it is selected as "All", and the        *)
(* attached reflectable kinds among K when it is selected as K; a kind     *)
(* that is absent or not reflectable is left out and causes no panic.      *)
(***************************************************************************)
ExpectedKinds(e) ==
    IF ec[e].tag = "All" THEN Attached(e) \cap Reflectable
    ELSE ec[e].ids \cap Attached(e) \cap Reflectable

C5_BuildContent ==
    call.name = "build_scene" =>
        /\ type_registry.present => status = "running"
        /\ status = "running" => SceneIs(Selected(ec), ExpectedKinds)

\* build_scene has returned with an "All" entity that has a kind that does
\* not reflect beside one that does, and an explicit selection naming a kind
\* the entity lacks beside one it has.
C5_Witness ==
    /\ Returned("build_scene")
    /\ \E e \in Entities :
          /\ ec[e] = All
          /\ Attached(e) \ Reflectable # {}
          /\ Attached(e) \cap Reflectable # {}
    /\ \E e \in Entities :
          /\ ec[e].tag = "ByIds"
          /\ ec[e].ids \ Attached(e) # {}
          /\ ec[e].ids \cap Attached(e) \cap Reflectable # {}

(***************************************************************************)
(* C6.  As claimed: after any add_* calls build_scene does not fail, and   *)
(* its scene has one record per selected entity and none besides, an       *)
(* entity with nothing reflected appearing with an empty list.             *)
(***************************************************************************)
OneRecordPerEntity ==
    /\ Len(scene) = Cardinality(Selected(ec))
    /\ \A n \in Ids :
          Records(scene, n) = Cardinality({e \in Selected(ec) : id(e) = n})
    /\ \A e \in Selected(ec) :
          ExpectedKinds(e) = {} =>
              \E i \in DOMAIN scene :
                  scene[i].entity = id(e) /\ scene[i].components = <<>>

C6_Original ==
    call.name = "build_scene" => status = "running" /\ OneRecordPerEntity

(***************************************************************************)
(* C6, amended.  build_scene panics exactly when the World holds no        *)
(* TypeRegistry resource; when it returns, its scene has one record per    *)
(* selected entity and none besides, an entity with nothing reflected      *)
(* (no explicit kind attached, nothing reflectable, or not alive)          *)
(* appearing with an empty list.                                           *)
(***************************************************************************)
C6_OneRecordPerEntity ==
    call.name = "build_scene" =>
        /\ status = "running" <=> type_registry.present
        /\ status = "running" => OneRecordPerEntity

\* build_scene has returned with both generations of one id selected, the
\* dead one with an explicit kind, each with its record.
C6_Witness ==
    /\ Returned("build_scene")
    /\ ec[<<1, 0>>].tag = "ByIds" /\ ec[<<1, 0>>].ids # {}
    /\ ec[<<1, 1>>] = All
    /\ Records(scene, 1) = 2
    /\ \E i \in DOMAIN scene : scene[i].entity = 1 /\ scene[i].components = <<>>

(***************************************************************************)
(* C7.  The scene scene_from_query_filter::<F> returns holds one record    *)
(* per entity matching F, carrying exactly the attached reflectable kinds  *)
(* of the entity, those F does not mention included.                       *)
(***************************************************************************)
AttachedReflectable(e) == Attached(e) \cap Reflectable

C7_FilterSceneContent ==
    Returned("scene_from_query_filter") =>
        SceneIs({e \in Entities : FilterHolds(call.f, e)}, AttachedReflectable)

\* With<Position> has returned two records, one of them carrying Velocity,
\* which the filter does not mention, beside Position.
C7_Witness ==
    /\ Returned("scene_from_query_filter")
    /\ call.f = [with |-> {"Position"}, without |-> {}]
    /\ Len(scene) = 2
    /\ \E i \in DOMAIN scene :
          Range(scene[i].components) = {"Position", "Velocity"}

(***************************************************************************)
(* C8.  The scene scene_from_query_components::<Q, F> returns holds one    *)
(* record per entity that has every kind of Q and matches F, and no other, *)
(* carrying exactly the kinds of Q that are attached and reflectable.      *)
(***************************************************************************)
DeclaredReflectable(e) == Range(call.q) \cap Attached(e) \cap Reflectable

C8_ComponentsSceneContent ==
    Returned("scene_from_query_components") =>
        SceneIs({e \in Entities : HasDeclared(call.q, e) /\ FilterHolds(call.f, e)},
                DeclaredReflectable)

\* Q = (&Position,), F = With<Velocity> has returned the one entity that has
\* both, carrying Position alone, while another entity has Position.
C8_Witness ==
    /\ Returned("scene_from_query_components")
    /\ call.q = <<"Position">>
    /\ call.f = [with |-> {"Velocity"}, without |-> {}]
    /\ scene = <<[entity |-> 0, components |-> <<"Position">>]>>
    /\ "Velocity" \in Reflectable
    /\ Attached(<<1, 1>>) = {"Position"}

(***************************************************************************)
(* C9.  As claimed: in the scene of either function, every entity matching *)
(* F has exactly one record and no other entity has one.                   *)
(***************************************************************************)
C9_Original ==
    (Returned("scene_from_query_filter") \/ Returned("scene_from_query_components"))
        => \A n \in Ids :
              Records(scene, n) =
                  Cardinality({e \in Entities : id(e) = n /\ FilterHolds(call.f, e)})

(***************************************************************************)
(* C9, amended.  In the scene of either function no entity that does not   *)
(* match F has a record, and every entity that matches F and has every     *)
(* kind Q declares (none, for scene_from_query_filter) has exactly one.    *)
(***************************************************************************)
C9_OnlyMatching ==
    (Returned("scene_from_query_filter") \/ Returned("scene_from_query_components"))
        => \A n \in Ids :
              Records(scene, n) =
                  Cardinality({e \in Entities :
                      id(e) = n /\ FilterHolds(call.f, e) /\ HasDeclared(call.q, e)})

\* Without<Velocity> has returned the one live entity that has no Velocity,
\* the other live entity having it.
C9_Witness ==
    /\ Returned("scene_from_query_filter")
    /\ call.f = [with |-> {}, without |-> {"Velocity"}]
    /\ Len(scene) = 1 /\ scene[1].entity = 1
    /\ "Velocity" \in Attached(<<0, 0>>)

(***************************************************************************)
(* C10.  As claimed: an explicit add that declares a kind that has no      *)
(* ComponentId in the World when the call is made ends in the panic (here  *)
(* for the calls that name an entity or run a query, leaving aside         *)
(* add_components_to_entities with an empty list).                         *)
(***************************************************************************)
Unregistered(q) == \E i \in DOMAIN q : q[i] \notin components

C10_Original ==
    [][(/\ call'.name \in ExplicitOps
        /\ Unregistered(call'.q)
        /\ call'.name = "add_components_to_entities" => call'.ents # <<>>) =>
          status' = "panicked"]_vars

(***************************************************************************)
(* C10, amended.  The panic is raised where the kind is resolved, which is *)
(* not at every call.  With a kind of Q that has no ComponentId:           *)
(* add_components_to_entity(e) panics unless e is selected as "All";       *)
(* add_components_to_entities panics unless every listed entity is         *)
(* selected as "All"; add_with_components returns and changes no           *)
(* selection.  With every kind of Q registered none of the three panics.   *)
(***************************************************************************)
C10_PanicWhereResolved ==
    [][call'.name \in ExplicitOps =>
          IF ~Unregistered(call'.q) THEN status' = "running"
          ELSE IF call'.name = "add_with_components"
               THEN status' = "running" /\ ec' = ec
               ELSE status' = "panicked" <=>
                        \E i \in DOMAIN call'.ents : ec[call'.ents[i]] # All]_vars

\* add_components_to_entities has panicked on its second entity, the first
\* being selected as "All".
C10_Witness ==
    /\ call.name = "add_components_to_entities"
    /\ status = "panicked"
    /\ Len(call.ents) = 2
    /\ ec[call.ents[1]] = All
    /\ ec[call.ents[2]] # All
    /\ \E i \in DOMAIN call.q : call.q[i] \notin components

(***************************************************************************)
(* C11.  add_with_components<Q, F> applies the merge-or-create rule to     *)
(* exactly the entities that have every kind of Q and pass F: one that was *)
(* not selected gets the explicit selection Q, one with an explicit        *)
(* selection gets its union with Q, one selected as "All" stays so; the    *)
(* selection of every other entity is left as it was.                      *)
(***************************************************************************)
C11_AddWithComponents ==
    [][call'.name = "add_with_components" =>
          /\ status' = "running"
          /\ \A e \in Entities :
                IF HasDeclared(call'.q, e) /\ FilterHolds(call'.f, e)
                THEN CASE ec[e].tag = "None" -> ec'[e] = ByIds(Range(call'.q))
                       [] ec[e].tag = "ByIds" ->
                             ec'[e] = ByIds(ec[e].ids \cup Range(call'.q))
                       [] OTHER -> ec'[e] = All
                ELSE ec'[e] = ec[e]]_vars

\* add_with_components has given a matching entity an explicit selection and
\* left alone a live entity that does not match and was selected otherwise.
C11_Witness ==
    /\ Returned("add_with_components")
    /\ call.q # <<>>
    /\ \E e \in Targets(call) :
          ec[e].tag = "ByIds" /\ Range(call.q) \subseteq ec[e].ids
    /\ \E e \in Entities \ Targets(call) :
          /\ location[e].alive
          /\ ec[e].tag = "ByIds"
          /\ ~(Range(call.q) \subseteq ec[e].ids)

(***************************************************************************)
(* C12.  add_entity is idempotent: add_entity(e) sets e to "All" and       *)
(* leaves every other entry alone, and add_entity(e) called again on the   *)
(* same entity changes nothing, so that two calls leave the mapping one    *)
(* call leaves.  add_entities leaves what depends only on the set of the   *)
(* listed ids, so an id listed twice counts once.                          *)
(***************************************************************************)
C12_AddEntityIdempotent ==
    [][/\ call'.name = "add_entity" =>
             /\ ec' = [ec EXCEPT ![call'.ents[1]] = All]
             /\ (call.name = "add_entity" /\ call.ents = call'.ents) => ec' = ec
       /\ call'.name = "add_entities" =>
             ec' = [e \in Entities |->
                      IF \E i \in DOMAIN call'.ents : call'.ents[i] = e
                      THEN All ELSE ec[e]]]_vars

\* add_entity has been chained onto an add_entity of the same entity (no other
\* entity is selected as "All", so the call before named this one), while
\* another entity keeps its explicit selection.
C12_Witness ==
    /\ Returned("add_entity")
    /\ call.prev = "add_entity"
    /\ ec[call.ents[1]] = All
    /\ \A e \in Entities \ {call.ents[1]} : ec[e] # All
    /\ \E e \in Entities : ec[e].tag = "ByIds" /\ ec[e].ids # {}

(***************************************************************************)
(* C13.  No operation of the library creates or destroys an entity or      *)
(* changes which kinds are attached to one: after every call the entities  *)
(* of the World and the kinds attached to each are what they were before   *)
(* it.  (A query does register the kinds it names; that attaches nothing.) *)
(***************************************************************************)
C13_WorldEntitiesUnchanged ==
    [][\A e \in Entities :
          /\ location'[e].alive = location[e].alive
          /\ Attached(e)' = Attached(e)]_vars

\* add_with_components has run a query that registered a kind no entity has,
\* on a builder that selects a live entity.
C13_Witness ==
    /\ Returned("add_with_components")
    /\ \E k \in Range(call.q) \cup call.f.with \cup call.f.without :
          \A e \in Entities : k \notin Attached(e)
    /\ \E e \in Entities : location[e].alive /\ ec[e].tag # "None"

(***************************************************************************)
(* C14.  Over the add_* operations of one builder a selection only widens: *)
(* no add removes an entity from the mapping, an entity selected as "All"  *)
(* stays "All", and an explicit set only gains kinds or becomes "All" --   *)
(* also in a call that panics.                                             *)
(***************************************************************************)
AddOps ==
    {"add_from_query_filter", "add_entity", "add_entities"} \cup ExplicitOps

Widens(a, b) ==
    CASE a.tag = "All" -> b = All
      [] a.tag = "ByIds" -> b = All \/ (b.tag = "ByIds" /\ a.ids \subseteq b.ids)
      [] OTHER -> TRUE

C14_SelectionOnlyWidens ==
    [][call'.name \in AddOps => \A e \in Entities : Widens(ec[e], ec'[e])]_vars

\* add_components_to_entity of one kind has left an explicit selection of two
\* kinds: the entity had an explicit selection, which gained a kind.
C14_Witness ==
    /\ Returned("add_components_to_entity")
    /\ Len(call.q) = 1
    /\ ec[call.ents[1]] = ByIds(Kinds)
    /\ \E e \in Entities : ec[e] = All

(***************************************************************************)
(* C15.  The final mapping does not depend on the order of the add_*       *)
(* calls: any two add operations applied to any builder state give the     *)
(* same mapping in either order; in particular add_entity(e) followed by   *)
(* add_components_to_entity<Q>(e), and the reverse order, both leave e     *)
(* selected as "All".  Stated here for that pair, on every add_entity(e)   *)
(* step: ec' is the mapping after add_entity(e); add_components_to_entity  *)
(* <Q>(e) after it, and add_components_to_entity<Q>(e) before it, both     *)
(* return, and leave the same mapping with e as "All".                     *)
(***************************************************************************)
C15_Original ==
    [][call'.name = "add_entity" =>
          \A q \in QLists :
              LET e == call'.ents[1]
                  after == for_each_add_components(ec', <<e>>, components, q)
                  before == for_each_add_components(ec, <<e>>, components, q)
              IN  /\ after.ok /\ before.ok
                  /\ after.ec = insert_all(before.ec, {e})
                  /\ after.ec[e] = All]_vars

(***************************************************************************)
(* C15, amended.  The order can decide whether a call panics: with a kind  *)
(* of Q that has no ComponentId, add_components_to_entity<Q>(e) panics     *)
(* before add_entity(e) and returns after it.  Among calls that return the *)
(* order does not matter, and every add returns when the kinds it declares *)
(* are registered.  This is so because every add that returns leaves       *)
(* ec' = ec joined, entity by entity, with a contribution that depends on  *)
(* the call and on the World's entities only -- not on the mapping, and    *)
(* not on the calls made before -- and the join ("All" absorbs, explicit   *)
(* sets unite, no selection is neutral) is commutative and associative.    *)
(* For add_entity(e) and add_components_to_entity<Q>(e) with Q registered  *)
(* the two orders are also computed, and compared, directly.               *)
(***************************************************************************)
Selections == {All, NotSelected} \cup {ByIds(c) : c \in SUBSET Kinds}

Join(a, b) ==
    CASE a = All \/ b = All -> All
      [] a.tag = "None" -> b
      [] b.tag = "None" -> a
      [] OTHER -> ByIds(a.ids \cup b.ids)

\* What the call c asks for, entity by entity.
Contribution(c) ==
    [e \in Entities |->
        CASE c.name \in {"add_entity", "add_entities"} /\ e \in Range(c.ents) -> All
          [] c.name = "add_from_query_filter" /\ FilterHolds(c.f, e) -> All
          [] c.name \in ExplicitOps /\ e \in Targets(c) -> ByIds(Range(c.q))
          [] OTHER -> NotSelected]

JoinLaws ==
    \A a, b, c \in Selections :
        /\ Join(a, b) = Join(b, a)
        /\ Join(Join(a, b), c) = Join(a, Join(b, c))

C15_OrderIndependent ==
    /\ JoinLaws
    /\ [][/\ (call'.name \in AddOps /\ ~Unregistered(call'.q)) =>
                status' = "running"
          /\ (call'.name \in AddOps /\ status' = "running") =>
                ec' = [e \in Entities |-> Join(ec[e], Contribution(call')[e])]
          /\ call'.name = "add_entity" =>
                \A q \in QLists :
                    LET e == call'.ents[1]
                        after == for_each_add_components(ec', <<e>>, components, q)
                        before == for_each_add_components(ec, <<e>>, components, q)
                    IN  /\ after.ok /\ after.ec[e] = All
                        /\ ~Unregistered(q) =>
                              /\ before.ok
                              /\ after.ec = insert_all(before.ec, {e})]_vars

\* add_entity(e) has returned on a builder that holds an explicit selection
\* for another entity, every kind being registered: an "All" add made after
\* an explicit add.
C15_Witness ==
    /\ Returned("add_entity")
    /\ call.prev = "none"
    /\ components = Kinds
    /\ \E e \in Entities \ {call.ents[1]} : ec[e] = ByIds(Kinds)

(***************************************************************************)
(* C16.  Builder and standalone functions agree.  A fresh SceneBuilder     *)
(* after add_from_query_filter<F> builds a scene with the entities, and    *)
(* for each the set of kinds, of the scene scene_from_query_filter<F>      *)
(* returns on the same World; likewise add_with_components<Q, F> and       *)
(* scene_from_query_components<Q, F>.  Checked from both sides: the scene  *)
(* a standalone call has returned against every scene the builder could    *)
(* build, and the scene build_scene has returned, whenever the builder's   *)
(* map is the one a fresh builder holds after that one add, against every  *)
(* scene the standalone call could return.                                 *)
(***************************************************************************)
EmptyMap == [e \in Entities |-> NotSelected]

\* The map of a fresh builder after add_from_query_filter<F>, and the maps it
\* can hold after add_with_components<Q, F>.
FreshAfterFilter(f) == insert_all(EmptyMap, QueryMatches(<<>>, f))
FreshAfterComponents(q, f) ==
    {for_each_add_components(EmptyMap, order, SystemState_new(q, f), q).ec :
        order \in Perms(QueryMatches(q, f))}

\* The scenes build_scene can return from the map m.
BuiltFrom(m) ==
    Scenes(Selected(m), [e \in Selected(m) |-> selection_components(e, m[e])])

\* The scenes the standalone calls can return.
FilterScenes(f) ==
    Scenes(QueryMatches(<<>>, f),
           [e \in QueryMatches(<<>>, f) |->
               {filter_map(e, p) : p \in archetype_components(e)}])
ComponentsScenes(q, f) ==
    Scenes(QueryMatches(q, f),
           [e \in QueryMatches(q, f) |->
               {filter_map(e, do_component_ids(SystemState_new(q, f), q).ids)}])

\* The same entities and, for each, the same set of kinds.
EntityKinds(s) ==
    {[entity |-> s[i].entity, kinds |-> Range(s[i].components)] : i \in DOMAIN s}
SameScene(s, t) == Len(s) = Len(t) /\ EntityKinds(s) = EntityKinds(t)

C16_BuilderAgreesWithStandalone ==
    /\ Returned("scene_from_query_filter") =>
          \A s \in BuiltFrom(FreshAfterFilter(call.f)) : SameScene(s, scene)
    /\ Returned("scene_from_query_components") =>
          \A m \in FreshAfterComponents(call.q, call.f) :
              \A s \in BuiltFrom(m) : SameScene(s, scene)
    /\ Returned("build_scene") =>
          /\ \A f \in FilterArgs :
                ec = FreshAfterFilter(f) =>
                    \A s \in FilterScenes(f) : SameScene(s, scene)
          /\ \A q \in QLists, f \in FilterArgs :
                ec \in FreshAfterComponents(q, f) =>
                    \A s \in ComponentsScenes(q, f) : SameScene(s, scene)

\* build_scene has returned two records, one of them with a component, from
\* the map a fresh builder holds after add_with_components<Q, F> with a Q that
\* names a kind.
C16_Witness ==
    /\ Returned("build_scene")
    /\ Len(scene) = 2
    /\ \E i \in DOMAIN scene : scene[i].components # <<>>
    /\ \E q \in QLists, f \in FilterArgs :
          q # <<>> /\ ec \in FreshAfterComponents(q, f)

(***************************************************************************)
(* C17.  In every scene returned by scene_from_query_components,           *)
(* scene_from_query_filter and build_scene, the component list of an       *)
(* entity holds at most one value of each kind -- also when Q names a kind *)
(* more than once.                                                         *)
(***************************************************************************)
Producers ==
    {"scene_from_query_components", "scene_from_query_filter", "build_scene"}

C17_OneValuePerKind ==
    (call.name \in Producers /\ status = "running") =>
        \A i \in DOMAIN scene :
            \A k \in Kinds : KindCount(scene[i].components)[k] <= 1
====
